---- MODULE Spec2Model ----
(***************************************************************************)
(* Model of nictools/SP_FirstDerivatives.py: first-order automatic         *)
(* differentiation with the class DerivVar (the "DualNumber"), the helper  *)
(* _mapderiv (the "derivative combinator"), isDerivVar and DerivVector.    *)
(*                                                                         *)
(* Scalars are exact rationals <<n, d>> (d > 0, lowest terms).  Objects    *)
(* live in a heap (a sequence of records [value, deriv]); a method takes   *)
(* the heap and references to its operands and returns an outcome          *)
(* [err, heap, res]: the exception raised (or "none"), the heap after the  *)
(* call and the reference it returns.                                      *)
(***************************************************************************)
EXTENDS Integers, Sequences, FiniteSets, TLC

VARIABLES py, heap, last, introduced, mapin, mapout

vars == <<py, heap, last, introduced, mapin, mapout>>

\* ------------------------------------------------------------------ bounds
\* largest variable index the caller passes to the constructor
MaxIndex == 1
\* largest number of live DerivVar objects
MaxObjs == 3
\* operands of an arithmetic step have numerators and denominators up to this
MaxMag == 12
\* exponents of ** are integers of absolute value up to this
MaxExp == 3
\* longest list handed to _mapderiv directly
MaxLen == 2

\* -------------------------------------------------------- exact scalars
R(n) == <<n, 1>>
Zero == R(0)
One == R(1)

Abs(n) == IF n < 0 THEN -n ELSE n

RECURSIVE GCD(_, _)
GCD(a, b) == IF b = 0 THEN a ELSE GCD(b, a % b)

Norm(n, d) ==
    LET g == GCD(Abs(n), Abs(d))
        s == IF d < 0 THEN -1 ELSE 1
    IN  <<(s * n) \div g, (s * d) \div g>>

RAdd(a, b) == Norm(a[1] * b[2] + b[1] * a[2], a[2] * b[2])
RSub(a, b) == Norm(a[1] * b[2] - b[1] * a[2], a[2] * b[2])
RMul(a, b) == Norm(a[1] * b[1], a[2] * b[2])
\* true division (from __future__ import division); the caller checks b # 0
RDiv(a, b) == Norm(a[1] * b[2], a[2] * b[1])
RNeg(a) == <<-a[1], a[2]>>
RAbs(a) == <<Abs(a[1]), a[2]>>
RSign(a) == IF a[1] > 0 THEN R(1) ELSE IF a[1] < 0 THEN R(-1) ELSE R(0)
IsInt(a) == a[2] = 1

\* a ** k for a natural k, by repeated multiplication
RECURSIVE RPowNat(_, _)
RPowNat(a, k) == IF k = 0 THEN One ELSE RMul(a, RPowNat(a, k - 1))

\* the built-in pow(a, k) for an integer k; pow(0, negative) raises
PowDefined(a, k) == ~(a = Zero /\ k < 0)
RPow(a, k) == IF k >= 0 THEN RPowNat(a, k) ELSE RDiv(One, RPowNat(a, -k))

\* np.log on the values the model feeds it, to one decimal place
LnDom == {R(1), R(2), R(3)}
NpLog(a) == IF a = R(1) THEN Zero ELSE IF a = R(2) THEN <<7, 10>> ELSE <<11, 10>>

SmallR(a) == Abs(a[1]) <= MaxMag /\ a[2] <= MaxMag

\* ------------------------------------------------------------ references
\* an operand is a reference to a heap object or a plain scalar
Obj(i) == [isObj |-> TRUE, id |-> i, v |-> Zero]
Plain(c) == [isObj |-> FALSE, id |-> 0, v |-> c]
NoRef == Obj(0)

\* the constructor's second argument: an integer index or a list
IntIndex(i) == [isList |-> FALSE, n |-> i, l |-> <<>>]
ListIndex(l) == [isList |-> TRUE, n |-> 0, l |-> l]

\* ------------------------------------------------------------- outcomes
Return(h, r) == [err |-> "none", heap |-> h, res |-> r]
Raise(h, e) == [err |-> e, heap |-> h, res |-> NoRef]

Zeros(n) == [i \in 1..n |-> Zero]
Max(a, b) == IF a >= b THEN a ELSE b


\* attribute access on an operand reference
V(h, x) == h[x.id].value
D(h, x) == h[x.id].deriv

\* ------------------------------------------------------ module functions
\* hasattr(x, 'value') and hasattr(x, 'deriv')
isDerivVar(x) == x.isObj

\* the lambdas handed to _mapderiv
Call(func, a, b) == IF func = "a+b" THEN RAdd(a, b) ELSE RSub(a, b)

PadZeros(a, nvars) == a \o Zeros(nvars - Len(a))

\* _mapderiv stopping at the shorter list, as zip does
_mapderiv_truncating(func, a, b) ==
    LET nvars == IF Len(a) <= Len(b) THEN Len(a) ELSE Len(b)
    IN  [i \in 1..nvars |-> Call(func, a[i], b[i])]

_mapderiv(func, a, b) ==
    LET nvars == Max(Len(a), Len(b))
        a1 == PadZeros(a, nvars)
        b1 == PadZeros(b, nvars)
    IN  [i \in 1..nvars |-> Call(func, a1[i], b1[i])]

\* [c*x for x in l]
Scale(c, l) == [i \in 1..Len(l) |-> RMul(c, l[i])]

\* --------------------------------------------------------- class DerivVar
\* __init__ putting the 1 first: [1] + index*[0]
DerivVar_unit_first(h, value, index, order) ==
    IF order < 0 \/ order > 1
    THEN Raise(h, "ValueError")
    ELSE LET deriv == IF order = 0 THEN <<>>
                      ELSE IF index.isList THEN index.l
                      ELSE <<One>> \o Zeros(index.n)
         IN  Return(Append(h, [value |-> value, deriv |-> deriv]), Obj(Len(h) + 1))

\* DerivVar.__init__ on a fresh instance, which the call returns
DerivVar(h, value, index, order) ==
    IF order < 0 \/ order > 1
    THEN Raise(h, "ValueError")
    ELSE LET deriv == IF order = 0 THEN <<>>
                      ELSE IF index.isList THEN index.l
                      ELSE Zeros(index.n) \o <<One>>
         IN  Return(Append(h, [value |-> value, deriv |-> deriv]), Obj(Len(h) + 1))

__getitem__(h, self, order) ==
    IF order < 0 \/ order > 1
    THEN [err |-> "ValueError", val |-> <<>>]
    ELSE [err |-> "none", val |-> IF order = 0 THEN V(h, self) ELSE D(h, self)]

__coerce__(h, self, other) ==
    IF isDerivVar(other)
    THEN Return(h, <<self, other>>)
    ELSE LET c == DerivVar(h, other.v, ListIndex(<<>>), 1)
         IN  Return(c.heap, <<self, c.res>>)

\* __neg__ negating self in place and returning it
__neg__in_place(h, self) ==
    Return([h EXCEPT ![self.id] =
                [value |-> RNeg(V(h, self)),
                 deriv |-> [i \in 1..Len(D(h, self)) |-> RNeg(D(h, self)[i])]]],
           self)

__neg__(h, self) ==
    DerivVar(h, RNeg(V(h, self)),
             ListIndex([i \in 1..Len(D(h, self)) |-> RNeg(D(h, self)[i])]), 1)

__pos__(h, self) == Return(h, self)

__abs__(h, self) ==
    LET absvalue == RAbs(V(h, self))
    IN  IF Len(D(h, self)) > 0 /\ absvalue = Zero
        THEN Raise(h, "ZeroDivisionError")
        ELSE DerivVar(h, absvalue,
                 ListIndex([i \in 1..Len(D(h, self)) |->
                               RMul(RDiv(V(h, self), absvalue), D(h, self)[i])]), 1)

__add__(h, self, other) ==
    IF ~isDerivVar(other) THEN Raise(h, "AttributeError")
    ELSE DerivVar(h, RAdd(V(h, self), V(h, other)),
                  ListIndex(_mapderiv("a+b", D(h, self), D(h, other))), 1)

__sub__(h, self, other) ==
    IF ~isDerivVar(other) THEN Raise(h, "AttributeError")
    ELSE DerivVar(h, RSub(V(h, self), V(h, other)),
                  ListIndex(_mapderiv("a-b", D(h, self), D(h, other))), 1)

__rsub__(h, self, other) ==
    IF ~isDerivVar(other) THEN Raise(h, "AttributeError")
    ELSE DerivVar(h, RSub(V(h, other), V(h, self)),
                  ListIndex(_mapderiv("a-b", D(h, other), D(h, self))), 1)

\* __mul__ scaling each derivative vector by its own value
__mul__own_value(h, self, other) ==
    IF ~isDerivVar(other) THEN Raise(h, "AttributeError")
    ELSE DerivVar(h, RMul(V(h, self), V(h, other)),
                  ListIndex(_mapderiv("a+b",
                                      Scale(V(h, self), D(h, self)),
                                      Scale(V(h, other), D(h, other)))), 1)

__mul__(h, self, other) ==
    IF ~isDerivVar(other) THEN Raise(h, "AttributeError")
    ELSE DerivVar(h, RMul(V(h, self), V(h, other)),
                  ListIndex(_mapderiv("a+b",
                                      Scale(V(h, other), D(h, self)),
                                      Scale(V(h, self), D(h, other)))), 1)

\* __truediv__ testing the dividend as well: if not other.value or not self.value
__truediv__zero_dividend(h, self, other) ==
    IF ~isDerivVar(other) THEN Raise(h, "AttributeError")
    ELSE IF V(h, other) = Zero \/ V(h, self) = Zero THEN Raise(h, "ZeroDivisionError")
    ELSE LET inv == RDiv(One, V(h, other))
         IN  DerivVar(h, RMul(V(h, self), inv),
                      ListIndex(_mapderiv("a-b",
                                    Scale(inv, D(h, self)),
                                    Scale(RMul(RMul(V(h, self), inv), inv), D(h, other)))), 1)

__truediv__(h, self, other) ==
    IF ~isDerivVar(other) THEN Raise(h, "AttributeError")
    ELSE IF V(h, other) = Zero THEN Raise(h, "ZeroDivisionError")
    ELSE LET inv == RDiv(One, V(h, other))
         IN  DerivVar(h, RMul(V(h, self), inv),
                      ListIndex(_mapderiv("a-b",
                                    Scale(inv, D(h, self)),
                                    Scale(RMul(RMul(V(h, self), inv), inv), D(h, other)))), 1)

\* other/self, evaluated in this module: other.__truediv__(self)
__rdiv__(h, self, other) ==
    IF isDerivVar(other) THEN __truediv__(h, other, self) ELSE Raise(h, "TypeError")

\* __pow__ with the base term built on val instead of val1
__pow__base_on_val(h, self, other, z) ==
    IF z # <<>> THEN Raise(h, "TypeError")
    ELSE IF ~isDerivVar(other) THEN Raise(h, "AttributeError")
    ELSE IF ~PowDefined(V(h, self), V(h, other)[1] - 1) THEN Raise(h, "ZeroDivisionError")
    ELSE LET val1 == RPow(V(h, self), V(h, other)[1] - 1)
             val == RMul(val1, V(h, self))
             deriv1 == Scale(RMul(val, V(h, other)), D(h, self))
         IN  IF isDerivVar(other) /\ Len(D(h, other)) > 0
             THEN LET deriv2 == Scale(RMul(val, NpLog(V(h, self))), D(h, other))
                  IN  DerivVar(h, val, ListIndex(_mapderiv("a+b", deriv1, deriv2)), 1)
             ELSE DerivVar(h, val, ListIndex(deriv1), 1)

\* z is <<>> for None
__pow__(h, self, other, z) ==
    IF z # <<>> THEN Raise(h, "TypeError")
    ELSE IF ~isDerivVar(other) THEN Raise(h, "AttributeError")
    ELSE IF ~PowDefined(V(h, self), V(h, other)[1] - 1) THEN Raise(h, "ZeroDivisionError")
    ELSE LET val1 == RPow(V(h, self), V(h, other)[1] - 1)
             val == RMul(val1, V(h, self))
             deriv1 == Scale(RMul(val1, V(h, other)), D(h, self))
         IN  IF isDerivVar(other) /\ Len(D(h, other)) > 0
             THEN LET deriv2 == Scale(RMul(val, NpLog(V(h, self))), D(h, other))
                  IN  DerivVar(h, val, ListIndex(_mapderiv("a+b", deriv1, deriv2)), 1)
             ELSE DerivVar(h, val, ListIndex(deriv1), 1)

\* pow(other, self): other.__pow__(self); a plain other hands the call back
\* to self.__rpow__ without end
__rpow__(h, self, other) ==
    IF isDerivVar(other) THEN __pow__(h, other, self, <<>>) ELSE Raise(h, "RecursionError")

sign(h, self) ==
    IF V(h, self) = Zero
    THEN Raise(h, "ValueError")
    ELSE DerivVar(h, RSign(V(h, self)), IntIndex(0), 1)

\* DerivVector on three DerivVars or on three plain scalars
DerivVector(h, x, y, z, index) ==
    IF isDerivVar(x) /\ isDerivVar(y) /\ isDerivVar(z)
    THEN Return(h, <<x, y, z>>)
    ELSE LET dx == DerivVar(h, x.v, IntIndex(index), 1)
             dy == DerivVar(dx.heap, y.v, IntIndex(index + 1), 1)
             dz == DerivVar(dy.heap, z.v, IntIndex(index + 2), 1)
         IN  Return(dz.heap, <<dx.res, dy.res, dz.res>>)


\* ------------------------------------------- the interpreter's dispatch
\* the special method `a op b` resolves to; reflected when only b is a DerivVar
MethodName(pyv, op, reflected) ==
    IF op = "div"
    THEN IF pyv = 2 THEN (IF reflected THEN "__rdiv__" ELSE "__div__")
         ELSE (IF reflected THEN "__rtruediv__" ELSE "__truediv__")
    ELSE (IF reflected THEN "__r" ELSE "__") \o op \o "__"

\* attribute lookup on the class: __radd__ = __add__, __rmul__ = __mul__,
\* __div__ = __truediv__; there is no __rtruediv__
CallMethod(h, name, self, other) ==
    CASE name \in {"__add__", "__radd__"} -> __add__(h, self, other)
      [] name = "__sub__" -> __sub__(h, self, other)
      [] name = "__rsub__" -> __rsub__(h, self, other)
      [] name \in {"__mul__", "__rmul__"} -> __mul__(h, self, other)
      [] name \in {"__div__", "__truediv__"} -> __truediv__(h, self, other)
      [] name = "__rdiv__" -> __rdiv__(h, self, other)
      [] name = "__pow__" -> __pow__(h, self, other, <<>>)
      [] name = "__rpow__" -> __rpow__(h, self, other)
      [] OTHER -> Raise(h, "TypeError")

RemoveAt(s, t) == SubSeq(s, 1, t - 1) \o SubSeq(s, t + 1, Len(s))

\* the temporary made by __coerce__ dies when the call returns
ReleaseTemp(h, hc, out) ==
    IF Len(hc) = Len(h) THEN out
    ELSE IF out.err # "none" THEN Raise(h, out.err)
    ELSE LET t == Len(hc)
         IN  Return(RemoveAt(out.heap, t),
                    IF out.res.id > t THEN Obj(out.res.id - 1) ELSE out.res)

\* `a op b` with at least one DerivVar operand.  Python 2 coerces the
\* operands of a classic class through __coerce__; Python 3 never calls it.
BinaryOp(pyv, h, op, a, b) ==
    LET reflected == ~a.isObj
        self == IF reflected THEN b ELSE a
        other == IF reflected THEN a ELSE b
        name == MethodName(pyv, op, reflected)
    IN  IF pyv = 2
        THEN LET c == __coerce__(h, self, other)
             IN  ReleaseTemp(h, c.heap, CallMethod(c.heap, name, c.res[1], c.res[2]))
        ELSE CallMethod(h, name, self, other)

\* ------------------------------------------------------------ the caller
Values == {R(0), R(2), R(3)}
PlainValues == {R(2)}
Ops == {"add", "sub", "mul", "div", "pow"}

\* (index, order) pairs handed to the constructor
CtorArgs ==
    {<<IntIndex(i), 1>> : i \in 0..MaxIndex}
    \cup {<<IntIndex(MaxIndex), 0>>, <<ListIndex(<<One>>), 0>>}
    \cup {<<IntIndex(0), -1>>, <<IntIndex(0), 2>>}

Refs(h) == {Obj(i) : i \in 1..Len(h)}

SmallObj(o) == SmallR(o.value) /\ \A i \in 1..Len(o.deriv) : SmallR(o.deriv[i])
Small(h, x) == IF x.isObj THEN SmallObj(h[x.id]) ELSE SmallR(x.v)
ValueOf(h, x) == IF x.isObj THEN V(h, x) ELSE x.v
DerivOf(h, x) == IF x.isObj THEN D(h, x) ELSE <<>>

\* the exponents and bases ** is tried on
PowInputs(h, a, b) ==
    /\ IsInt(ValueOf(h, b))
    /\ Abs(ValueOf(h, b)[1]) <= MaxExp
    /\ (Len(DerivOf(h, b)) > 0 => ValueOf(h, a) \in LnDom)

Record(op, a, b, index, order, out, res) ==
    [op |-> op, a |-> a, b |-> b, index |-> index, order |-> order,
     err |-> out.err, res |-> res, pre |-> heap]

Init ==
    /\ py \in {2, 3}
    /\ heap = <<>>
    /\ last = [op |-> "start", a |-> NoRef, b |-> NoRef, index |-> IntIndex(0),
               order |-> 0, err |-> "none", res |-> <<>>, pre |-> <<>>]
    /\ introduced = {}
    /\ mapin = <<>>
    /\ mapout = <<>>

\* The session goes on until an exception is raised or the heap is full.  A
\* call that allocates nothing leaves the heap as the call before it found
\* it, so what can follow it is what could follow that call: the session
\* is not taken further from there.
Active ==
    /\ last.err = "none"
    /\ Len(heap) < MaxObjs
    /\ last.op = "start" \/ Len(heap) > Len(last.pre)

\* one call of the session
Step(out, rec) ==
    /\ Len(out.heap) <= MaxObjs
    /\ heap' = out.heap
    /\ last' = rec
    /\ UNCHANGED <<py, mapin, mapout>>

\* x = DerivVar(value, index, order); the variables are made first
ConstructWith(ctorArgs) ==
    /\ Active
    /\ last.op \in {"start", "DerivVar"}
    /\ \E value \in Values, args \in ctorArgs :
        LET out == DerivVar(heap, value, args[1], args[2])
        IN  /\ Step(out, Record("DerivVar", Plain(value), NoRef, args[1], args[2], out,
                                IF out.err = "none" THEN <<out.res>> ELSE <<>>))
            /\ introduced' = IF args[2] = 1 /\ ~args[1].isList
                             THEN introduced \cup {args[1].n} ELSE introduced

Construct == ConstructWith(CtorArgs)

Unary(op, out, x) ==
    /\ Small(heap, x)
    /\ Step(out, Record(op, x, NoRef, IntIndex(0), 0, out,
                        IF out.err = "none" THEN <<out.res>> ELSE <<>>))
    /\ UNCHANGED introduced

Neg == Active /\ \E x \in Refs(heap) : Unary("neg", __neg__(heap, x), x)

Pos == Active /\ \E x \in Refs(heap) : Unary("pos", __pos__(heap, x), x)

AbsCall == Active /\ \E x \in Refs(heap) : Unary("abs", __abs__(heap, x), x)

Sign == Active /\ \E x \in Refs(heap) : Unary("sign", sign(heap, x), x)

\* a op b on two DerivVars, or on a DerivVar and a plain scalar
Binary ==
    /\ Active
    /\ \E op \in Ops, a \in Refs(heap) \cup {Plain(c) : c \in PlainValues},
                      b \in Refs(heap) \cup {Plain(c) : c \in PlainValues} :
        /\ a.isObj \/ b.isObj
        /\ Small(heap, a) /\ Small(heap, b)
        /\ op = "pow" => PowInputs(heap, a, b)
        /\ LET out == BinaryOp(py, heap, op, a, b)
           IN  Step(out, Record(op, a, b, IntIndex(0), 0, out,
                                IF out.err = "none" THEN <<out.res>> ELSE <<>>))
        /\ UNCHANGED introduced

\* DerivVector(x, y, z, index) on three plain scalars
VectorWith(indices) ==
    /\ Active
    /\ last.op \in {"start", "DerivVar"}
    /\ \E x \in Values, y \in Values, z \in Values, index \in indices :
        LET out == DerivVector(heap, Plain(x), Plain(y), Plain(z), index)
        IN  /\ Step(out, Record("DerivVector", Plain(x), Plain(y), IntIndex(index), 1,
                                out, out.res))
            /\ introduced' = introduced \cup {index, index + 1, index + 2}

VectorOfScalars == VectorWith(0..MaxIndex)

\* DerivVector(x, y, y) on DerivVars, y the latest one
VectorOfDerivVars ==
    /\ Active
    /\ \E x \in Refs(heap) :
        LET y == Obj(Len(heap))
            out == DerivVector(heap, x, y, y, 0)
        IN  /\ Step(out, Record("DerivVector", x, y, IntIndex(0), 1, out, out.res))
            /\ UNCHANGED introduced

\* A caller that keeps to the documented use: every variable gets an index
\* of its own, and the indices are handed out consecutively from 0.
FreshIndex == Cardinality(introduced)

DenseCtorArgs ==
    {<<IntIndex(i), 1>> : i \in {FreshIndex} \cap 0..MaxIndex}
    \cup {<<IntIndex(MaxIndex), 0>>, <<ListIndex(<<One>>), 0>>}

ConstructDense == ConstructWith(DenseCtorArgs)

VectorDense == VectorWith({FreshIndex})

NextDense ==
    \/ ConstructDense
    \/ Neg
    \/ Pos
    \/ AbsCall
    \/ Sign
    \/ Binary
    \/ VectorDense
    \/ VectorOfDerivVars

\* _mapderiv(func, a, b) called on its own
Lists == UNION {[1..n -> {R(0), R(1), R(2), R(3)}] : n \in 0..MaxLen}

InitMap ==
    /\ py \in {2, 3}
    /\ heap = <<>>
    /\ last = [op |-> "start", a |-> NoRef, b |-> NoRef, index |-> IntIndex(0),
               order |-> 0, err |-> "none", res |-> <<>>, pre |-> <<>>]
    /\ introduced = {}
    /\ mapin \in [func : {"a+b", "a-b"}, a : Lists, b : Lists]
    /\ mapout = [done |-> FALSE, val |-> <<>>]

MapDeriv ==
    /\ ~mapout.done
    /\ mapout' = [done |-> TRUE, val |-> _mapderiv(mapin.func, mapin.a, mapin.b)]
    /\ UNCHANGED <<py, heap, last, introduced, mapin>>

Next ==
    \/ Construct
    \/ Neg
    \/ Pos
    \/ AbsCall
    \/ Sign
    \/ Binary
    \/ VectorOfScalars
    \/ VectorOfDerivVars

Spec == Init /\ [][Next]_vars

SpecDense == Init /\ [][NextDense]_vars

SpecMap == InitMap /\ [][MapDeriv]_vars


\* ============================================================ properties
Succeeded == last.err = "none" /\ last.res # <<>>
\* the object the last call returned, and its operands as the call found them
Result == heap[last.res[1].id]
OperandValue(x) == ValueOf(last.pre, x)
OperandDeriv(x) == DerivOf(last.pre, x)
BothDerivVars == last.a.isObj /\ last.b.isObj
\* entry i of a derivative vector, absent entries being zero
Entry(l, i) == IF i <= Len(l) THEN l[i] ELSE Zero

\* C1: DualNumber(a, i, order=1) reads a at order 0 and, at order 1, a vector
\* of length i+1 with 1 at position i and 0 elsewhere; DualNumber(a, order=0)
\* reads the empty vector at order 1, whatever the index argument is.
C1_ConstructAndRead ==
    last.op = "DerivVar" =>
        /\ (last.order = 1 /\ ~last.index.isList) =>
              /\ Succeeded
              /\ __getitem__(heap, last.res[1], 0) = [err |-> "none", val |-> last.a.v]
              /\ LET d == __getitem__(heap, last.res[1], 1)
                 IN  /\ d.err = "none"
                     /\ Len(d.val) = last.index.n + 1
                     /\ \A k \in 1..Len(d.val) :
                            d.val[k] = IF k = last.index.n + 1 THEN One ELSE Zero
        /\ last.order = 0 =>
              /\ Succeeded
              /\ __getitem__(heap, last.res[1], 1) = [err |-> "none", val |-> <<>>]

C1_Witness ==
    /\ last.op = "DerivVar" /\ last.order = 1 /\ ~last.index.isList
    /\ last.index.n >= 1 /\ last.a.v = R(3)
    /\ Succeeded /\ Len(Result.deriv) = last.index.n + 1

\* C2: combining a DualNumber with a plain scalar c, with any binary operator
\* and in either position, gives what combining it with the constant
\* DualNumber(c, order=0) gives, and raises nothing because c is plain.
C2_PlainOperandIsConstant ==
    (last.op \in Ops /\ ~BothDerivVars) =>
        LET c == IF last.a.isObj THEN last.b.v ELSE last.a.v
            k == DerivVar(last.pre, c, IntIndex(0), 0)
            expected == BinaryOp(py, k.heap, last.op,
                                 IF last.a.isObj THEN last.a ELSE k.res,
                                 IF last.b.isObj THEN last.b ELSE k.res)
        IN  /\ last.err = expected.err
            /\ Succeeded => Result = expected.heap[expected.res.id]

\* the same expression on plain scalars: whether it evaluates, and to what
PlainDefined(op, u, v) ==
    CASE op = "div" -> v # Zero
      [] op = "pow" -> PowDefined(u, v[1])
      [] op = "sign" -> u # Zero
      [] OTHER -> TRUE

PlainValue(op, u, v) ==
    CASE op = "neg" -> RNeg(u)
      [] op = "pos" -> u
      [] op = "abs" -> RAbs(u)
      [] op = "sign" -> RSign(u)
      [] op = "add" -> RAdd(u, v)
      [] op = "sub" -> RSub(u, v)
      [] op = "mul" -> RMul(u, v)
      [] op = "div" -> RDiv(u, v)
      [] op = "pow" -> RPow(u, v[1])

\* C3: the value d[0] of the result of negate, absolute value, add,
\* subtract, multiply, divide, power and sign (away from zero, where sign is
\* documented to fail) on DualNumbers is the value the same expression has
\* on the plain scalar values, and an expression that evaluates on plain
\* scalars (0 ** 0, abs(0)) evaluates on DualNumbers.
C3_ValueChannel ==
    (last.op \in {"neg", "pos", "abs", "sign"} \cup Ops /\ BothDerivVars
        /\ PlainDefined(last.op, OperandValue(last.a), OperandValue(last.b))) =>
        /\ Succeeded
        /\ __getitem__(heap, last.res[1], 0).val =
               PlainValue(last.op, OperandValue(last.a), OperandValue(last.b))

\* C4: u*v on DualNumbers has value u*v and a derivative vector of length
\* max(len(d_u), len(d_v)) whose entry i is v*d_u[i] + u*d_v[i], a missing
\* entry counting as 0; (2,[1]) * (3,[0,1]) is (6,[3,2]).
C4_ProductRule ==
    (last.op = "mul" /\ BothDerivVars) =>
        LET u == OperandValue(last.a)
            v == OperandValue(last.b)
            du == OperandDeriv(last.a)
            dv == OperandDeriv(last.b)
        IN  /\ Succeeded
            /\ Result.value = RMul(u, v)
            /\ Len(Result.deriv) = Max(Len(du), Len(dv))
            /\ \A i \in 1..Len(Result.deriv) :
                   Result.deriv[i] = RAdd(RMul(v, Entry(du, i)), RMul(u, Entry(dv, i)))
            /\ (u = R(2) /\ du = <<One>> /\ v = R(3) /\ dv = <<Zero, One>>) =>
                   Result = [value |-> R(6), deriv |-> <<R(3), R(2)>>]

C4_Witness ==
    /\ last.op = "mul" /\ BothDerivVars /\ Succeeded
    /\ last.pre[last.a.id] = [value |-> R(2), deriv |-> <<One>>]
    /\ last.pre[last.b.id] = [value |-> R(3), deriv |-> <<Zero, One>>]
    /\ Result = [value |-> R(6), deriv |-> <<R(3), R(2)>>]

\* C5: dividing a DualNumber by a DualNumber whose value is zero raises the
\* division-by-zero error whatever the derivative vectors are, produces no
\* DualNumber and leaves both operands as they were; a division by a
\* nonzero value never raises that error.
C5_DivisionByZero ==
    (last.op = "div" /\ BothDerivVars) =>
        /\ (OperandValue(last.b) = Zero) <=> (last.err = "ZeroDivisionError")
        /\ OperandValue(last.b) = Zero => (last.res = <<>> /\ heap = last.pre)
        /\ heap[last.a.id] = last.pre[last.a.id]
        /\ heap[last.b.id] = last.pre[last.b.id]

C5_Witness ==
    /\ last.op = "div" /\ BothDerivVars
    /\ OperandValue(last.b) = Zero /\ Len(OperandDeriv(last.b)) > 0
    /\ Len(OperandDeriv(last.a)) > 0
    /\ last.err = "ZeroDivisionError" /\ heap = last.pre

\* C6: sign() of a DualNumber whose value is zero raises the
\* undefined-derivative error; otherwise it returns the value sign(u) with a
\* derivative vector whose entries are all zero.
C6_SignDerivativeIsZero ==
    last.op = "sign" =>
        IF OperandValue(last.a) = Zero
        THEN last.err = "ValueError"
        ELSE /\ Succeeded
             /\ Result.value = RSign(OperandValue(last.a))
             /\ \A i \in 1..Len(Result.deriv) : Result.deriv[i] = Zero

\* C7: a power u ** w that returns (either operand may be a plain scalar,
\* which has no derivative vector) has value u^w; its derivative vector is
\* the base term w*u^(w-1)*d_u, to which the exponent term u^w*ln(u)*d_w is
\* added entry by entry (missing entries zero) exactly when w has a
\* non-empty derivative vector, and otherwise has the length of d_u;
\* (2,[1]) ** (3,[0,1]) is (8,[12, 8*ln(2)]).
C7_PowerRule ==
    (last.op = "pow" /\ Succeeded) =>
        LET u == OperandValue(last.a)
            w == OperandValue(last.b)
            du == OperandDeriv(last.a)
            dw == OperandDeriv(last.b)
            base == [i \in 1..Len(du) |-> RMul(RMul(w, RPow(u, w[1] - 1)), du[i])]
            expo == [i \in 1..Len(dw) |-> RMul(RMul(RPow(u, w[1]), NpLog(u)), dw[i])]
        IN  /\ Result.value = RPow(u, w[1])
            /\ IF Len(dw) > 0
               THEN /\ Len(Result.deriv) = Max(Len(du), Len(dw))
                    /\ \A i \in 1..Len(Result.deriv) :
                           Result.deriv[i] = RAdd(Entry(base, i), Entry(expo, i))
               ELSE Result.deriv = base
            /\ (u = R(2) /\ du = <<One>> /\ w = R(3) /\ dw = <<Zero, One>>) =>
                   Result = [value |-> R(8), deriv |-> <<R(12), RMul(R(8), NpLog(R(2)))>>]

C7_Witness ==
    /\ last.op = "pow" /\ BothDerivVars /\ Succeeded
    /\ last.pre[last.a.id] = [value |-> R(2), deriv |-> <<One>>]
    /\ last.pre[last.b.id] = [value |-> R(3), deriv |-> <<Zero, One>>]
    /\ Result.value = R(8) /\ Len(Result.deriv) = 2

\* every DualNumber that existed before the last call is as it was
OldObjectsUnchanged ==
    /\ Len(heap) >= Len(last.pre)
    /\ \A i \in 1..Len(last.pre) : heap[i] = last.pre[i]

ReturnsNew == \A k \in 1..Len(last.res) : last.res[k].id > Len(last.pre)

\* C8 as the claim states it: after every call each previously constructed
\* DualNumber has the value and derivative vector it was created with, and
\* every operator or function returns a new DualNumber, never an operand.
C8_AlwaysNewObject ==
    /\ OldObjectsUnchanged
    /\ (last.op # "start" /\ Succeeded) => ReturnsNew

ReturnsOperands ==
    \/ last.op = "pos"
    \/ last.op = "DerivVector" /\ last.a.isObj

\* C8 amended: after every call each previously constructed DualNumber has
\* the value and derivative vector it was created with; unary plus returns
\* its operand itself and the vector constructor given three DualNumbers
\* returns those three; every other operator or function returns a new
\* DualNumber.
C8_Immutable ==
    /\ OldObjectsUnchanged
    /\ (last.op # "start" /\ Succeeded) =>
          IF ReturnsOperands
          THEN /\ heap = last.pre
               /\ last.res[1] = last.a
               /\ last.op = "DerivVector" => (last.res[2] = last.b /\ last.res[3] = last.b)
          ELSE ReturnsNew

C8_Witness ==
    /\ last.op = "add" /\ BothDerivVars /\ Succeeded
    /\ Len(OperandDeriv(last.a)) < Len(OperandDeriv(last.b))
    /\ Len(last.pre) >= 2 /\ Len(last.pre[1].deriv) < Len(Result.deriv)

\* C9: the derivative vector of every DualNumber is no longer than the
\* number of distinct variable indices the caller has introduced, and no
\* unary operator or function, sign included, returns a derivative vector
\* longer than its operand's.
C9_LengthBounded ==
    /\ \A i \in 1..Len(heap) : Len(heap[i].deriv) <= Cardinality(introduced)
    /\ (last.op \in {"neg", "pos", "abs", "sign"} /\ Succeeded) =>
          Len(Result.deriv) <= Len(OperandDeriv(last.a))

\* C10: _mapderiv(func, a, b), for lists of any lengths, returns a list of
\* length max(len(a), len(b)) whose entry i is func(a_i, b_i), an entry past
\* the end of the shorter list being 0; lambda a,b: a+b on [1,2], [3] gives
\* [4,2].
C10_MapDeriv ==
    mapout.done =>
        /\ Len(mapout.val) = Max(Len(mapin.a), Len(mapin.b))
        /\ \A i \in 1..Len(mapout.val) :
               mapout.val[i] = IF mapin.func = "a+b"
                               THEN RAdd(Entry(mapin.a, i), Entry(mapin.b, i))
                               ELSE RSub(Entry(mapin.a, i), Entry(mapin.b, i))
        /\ (mapin.func = "a+b" /\ mapin.a = <<R(1), R(2)>> /\ mapin.b = <<R(3)>>) =>
               mapout.val = <<R(4), R(2)>>

C10_Witness ==
    /\ mapout.done
    /\ mapin.func = "a+b" /\ mapin.a = <<R(1), R(2)>> /\ mapin.b = <<R(3)>>
    /\ mapout.val = <<R(4), R(2)>>

====
